---- MODULE Spec2Model ----
(***************************************************************************)
(* Flight Brain: the double-buffered MessageQueue (src/message_queue.rs),  *)
(* the System contract (src/system.rs) and the tick loop run (src/run.rs). *)
(*                                                                         *)
(* Components and the selection closure are caller code.  They are         *)
(* modelled by everything the System contract lets them do with the two    *)
(* references they receive: read the current buffer, overwrite values of   *)
(* the current buffer in place (iter_mut), push, and assign the program    *)
(* state.  A message is a record [val, born]: val is the payload, born is  *)
(* the number of next_tick calls that preceded its push (the generic T is  *)
(* instantiated with a payload stamped by its producer).                   *)
(***************************************************************************)
EXTENDS Integers, Sequences, FiniteSets, TLC

VARIABLES
    program_state,  \* run.rs: the ProgramState owned by run
    message_queue,  \* run.rs / message_queue.rs: the MessageQueue (two buffers)
    systems,        \* run.rs: Vec<Box<dyn System>>, each [id, st]
    pc,             \* position in run: start, check, dispatch, select, done
    idx,            \* position of the for loop over systems.iter_mut()
    tick,           \* number of next_tick calls performed so far
    selCalls,       \* number of invocations of the selection closure so far
    argList,        \* list argument handed to the latest selection call
    updated,        \* components updated since the latest next_tick, as left by update
    prevUpdated,    \* ids updated in the tick before the latest next_tick
    pushLog,        \* messages pushed since the latest next_tick, in call order
    prevLog,        \* pushLog as it was at the latest next_tick
    written,        \* positions of the current buffer overwritten since the latest next_tick
    selected,       \* list returned by the latest selection call
    snap,           \* queue, state, tick and updates as the latest selection call left them
    seen,           \* result of the latest iter() traversal (queue-level specification)
    seenValid,      \* an iter() was made and no next_tick or iter_mut change followed it
    input,          \* the values a scenario starts from (seed message, initial sum, stdin)
    writeVal,       \* position -> value last written through iter_mut since the latest next_tick
    io              \* what an example program has printed and read so far

vars == <<program_state, message_queue, systems, pc, idx, tick, selCalls,
          argList, updated, prevUpdated, pushLog, prevLog, written, selected,
          snap, seen, seenValid, input, writeVal, io>>

runVars == <<program_state, systems, pc, idx, selCalls, argList, updated,
             prevUpdated, selected, snap>>

----------------------------------------------------------------------------
(* Bounds *)

MaxTicks == 2       \* the selection closure returns the empty list at the latest after this tick
MaxQueue == 2       \* pushes are offered only while the next buffer is shorter than this
MaxPush == 2        \* most messages one update or selection call pushes
MaxVal == 2         \* payloads are 1..MaxVal
MaxState == 1       \* program states are 0..MaxState

Vals == 1..MaxVal
ProgramStates == 0..MaxState
Components == {"A", "B"}

SeqsUpTo(S, n) == UNION {[1..k -> S] : k \in 0..n}

\* lists of distinct components that the selection closure may return
SysLists == {l \in SeqsUpTo(Components, Cardinality(Components)) :
                \A i, j \in DOMAIN l : i # j => l[i] # l[j]}

Ids(l) == [i \in DOMAIN l |-> l[i].id]

----------------------------------------------------------------------------
(* src/message_queue.rs *)

new_dirty ==
    [current_tick_queue |-> <<[val |-> 1, born |-> 0]>>,
     next_tick_queue |-> <<>>]

new == [current_tick_queue |-> <<>>, next_tick_queue |-> <<>>]

iter(q) == q.current_tick_queue

iter_mut_both(q, i, v) ==
    [q EXCEPT !.current_tick_queue[i].val = v,
              !.next_tick_queue = [j \in DOMAIN @ |-> [@[j] EXCEPT !.val = v]]]

iter_mut_remove(q, i, v) ==
    [q EXCEPT !.current_tick_queue =
                  SubSeq(@, 1, i - 1) \o SubSeq(@, i + 1, Len(@))]

iter_mut_copy(q, i, v) == q

\* iter_mut(): in-place assignment through the &mut T of position i
iter_mut(q, i, v) == [q EXCEPT !.current_tick_queue[i].val = v]

push_capped(q, m) ==
    IF Len(q.next_tick_queue) >= 2 THEN q
    ELSE [q EXCEPT !.next_tick_queue = Append(@, m)]

push_front(q, m) == [q EXCEPT !.next_tick_queue = <<m>> \o @]

push_current(q, m) == [q EXCEPT !.current_tick_queue = Append(@, m)]

push(q, m) == [q EXCEPT !.next_tick_queue = Append(@, m)]

next_tick_noclear(q) ==
    [current_tick_queue |-> q.next_tick_queue,
     next_tick_queue |-> q.current_tick_queue]

next_tick_noswap(q) == [q EXCEPT !.next_tick_queue = <<>>]

next_tick_extend(q) ==
    [current_tick_queue |-> q.current_tick_queue \o q.next_tick_queue,
     next_tick_queue |-> <<>>]

next_tick(q) ==
    LET swapped == [current_tick_queue |-> q.next_tick_queue,
                    next_tick_queue |-> q.current_tick_queue]
    IN [swapped EXCEPT !.next_tick_queue = <<>>]

----------------------------------------------------------------------------
(* Caller code: what one System::update or one selection call does to the  *)
(* queue it is handed.                                                     *)

RECURSIVE PushAll(_, _)
PushAll(q, ms) ==
    IF ms = <<>> THEN q ELSE PushAll(push(q, Head(ms)), Tail(ms))

Stamp(vs, t) == [i \in DOMAIN vs |-> [val |-> vs[i], born |-> t]]

\* an optional overwrite through iter_mut: <<>> or <<position, value>>
Writes(q) ==
    {<<>>} \cup {<<i, v>> : i \in DOMAIN q.current_tick_queue, v \in Vals}

ApplyWrite(q, w) == IF w = <<>> THEN q ELSE iter_mut(q, w[1], w[2])

WritePos(q, w) ==
    IF w = <<>> \/ q.current_tick_queue[w[1]].val = w[2] THEN {} ELSE {w[1]}

PushSeqs(q) ==
    {vs \in SeqsUpTo(Vals, MaxPush) :
        Len(q.next_tick_queue) + Len(vs) <= MaxQueue}

ClientQueue(q, w, vs, t) == PushAll(ApplyWrite(q, w), Stamp(vs, t))

\* what one call of caller code may do: <<overwrite, pushed values, state>>.
\* With small = TRUE the caller only pushes nothing or the value 1 and
\* leaves the state at 0 (specifications about the control flow of run,
\* which never looks at the queue or the state).
ClientInputs(q, small) ==
    IF small
    THEN {<<<<>>, vs, 0>> : vs \in {<<>>, <<1>>} \cap PushSeqs(q)}
    ELSE Writes(q) \X PushSeqs(q) \X ProgramStates

\* the list a selection call returns: components of the argument keep their
\* internal state, others are newly constructed
Build(r, arg) ==
    [i \in DOMAIN r |->
        IF \E j \in DOMAIN arg : arg[j].id = r[i]
        THEN arg[CHOOSE j \in DOMAIN arg : arg[j].id = r[i]]
        ELSE [id |-> r[i], st |-> 0]]

NoSnap == [taken |-> FALSE]

NoInput == [seed |-> 0, sum |-> 0]

NoWrites == <<>>

\* the ghost record of an overwrite w made on queue q
RecordWrite(wv, q, w) ==
    IF WritePos(q, w) = {} THEN wv ELSE (w[1] :> w[2]) @@ wv

NoIO == [out |-> <<>>, reads |-> 0, pos |-> 0, shutdownTick |-> 0]

----------------------------------------------------------------------------
(* src/run.rs *)

Init ==
    /\ program_state = 0
    /\ message_queue = new
    /\ systems = <<>>
    /\ pc = "start"
    /\ idx = 0
    /\ tick = 0
    /\ selCalls = 0
    /\ argList = <<>>
    /\ updated = <<>>
    /\ prevUpdated = <<>>
    /\ pushLog = <<>>
    /\ prevLog = <<>>
    /\ written = {}
    /\ selected = <<>>
    /\ snap = NoSnap
    /\ seen = <<>>
    /\ seenValid = FALSE
    /\ input = NoInput
    /\ writeVal = NoWrites
    /\ io = NoIO

LoopCondAlways(s) == TRUE

LoopCondOffByOne(s) == Len(s) > 1

\* line 56: while !systems.is_empty()
LoopCond(s) == s # <<>>

iter_next_skip(i) == i + 2

\* line 58: the iterator of systems.iter_mut() moves to the next element
iter_next(i) == i + 1

\* one invocation of the selection closure with list argument arg; its
\* return value is left in selected
Selection(arg, small) ==
    \E r \in SysLists, inp \in ClientInputs(message_queue, small) :
        LET w == inp[1]  vs == inp[2]  s == inp[3] IN
        /\ tick >= MaxTicks => r = <<>>
        /\ message_queue' = ClientQueue(message_queue, w, vs, tick)
        /\ program_state' = s
        /\ selected' = Build(r, arg)
        /\ argList' = arg
        /\ selCalls' = selCalls + 1
        /\ pushLog' = pushLog \o Stamp(vs, tick)
        /\ written' = written \cup WritePos(message_queue, w)
        /\ writeVal' = RecordWrite(writeVal, message_queue, w)
        /\ snap' = [taken |-> TRUE, queue |-> message_queue', state |-> s,
                    tick |-> tick, updated |-> updated]
        /\ UNCHANGED <<idx, tick, updated, prevUpdated, prevLog, seen,
                   seenValid, input, io>>

\* line 54: let mut systems = update(&mut program_state, &mut message_queue, vec![]);
SelectFirstOn(small) ==
    /\ pc = "start"
    /\ Selection(<<>>, small)
    /\ systems' = selected'
    /\ pc' = "check"

SelectFirst == SelectFirstOn(FALSE)

ReturnAfterTick ==
    /\ pc = "check"
    /\ ~LoopCond(systems)
    /\ message_queue' = next_tick(message_queue)
    /\ pc' = "done"
    /\ UNCHANGED <<program_state, systems, idx, tick, selCalls,
                   argList, updated, prevUpdated, pushLog, prevLog, written,
                   selected, snap, seen,
                   seenValid, input, writeVal, io>>

\* line 56 false: the while loop ends and run returns
Return ==
    /\ pc = "check"
    /\ ~LoopCond(systems)
    /\ pc' = "done"
    /\ UNCHANGED <<program_state, message_queue, systems, idx, tick, selCalls,
                   argList, updated, prevUpdated, pushLog, prevLog, written,
                   selected, snap, seen,
                   seenValid, input, writeVal, io>>

AdvanceNoTick ==
    /\ pc = "check"
    /\ LoopCond(systems)
    /\ prevUpdated' = Ids(updated)
    /\ updated' = <<>>
    /\ snap' = NoSnap
    /\ idx' = 1
    /\ pc' = IF 1 <= Len(systems) THEN "dispatch" ELSE "select"
    /\ UNCHANGED <<program_state, message_queue, systems, tick, selCalls,
                   argList, pushLog, prevLog, written, selected, seen,
                   seenValid, input, writeVal, io>>

AdvancePushesTick ==
    /\ pc = "check"
    /\ LoopCond(systems)
    /\ message_queue' = push(next_tick(message_queue),
                             [val |-> 1, born |-> tick + 1])
    /\ tick' = tick + 1
    /\ prevLog' = pushLog
    /\ pushLog' = <<>>
    /\ written' = {}
    /\ writeVal' = NoWrites
    /\ prevUpdated' = Ids(updated)
    /\ updated' = <<>>
    /\ snap' = NoSnap
    /\ idx' = 1
    /\ pc' = IF 1 <= Len(systems) THEN "dispatch" ELSE "select"
    /\ UNCHANGED <<program_state, systems, selCalls, argList, selected, seen,
                   seenValid, input, io>>

\* line 56 true, line 57: message_queue.next_tick(); line 58: the for loop starts
Advance ==
    /\ pc = "check"
    /\ LoopCond(systems)
    /\ message_queue' = next_tick(message_queue)
    /\ tick' = tick + 1
    /\ prevLog' = pushLog
    /\ pushLog' = <<>>
    /\ written' = {}
    /\ writeVal' = NoWrites
    /\ prevUpdated' = Ids(updated)
    /\ updated' = <<>>
    /\ snap' = NoSnap
    /\ idx' = 1
    /\ pc' = IF 1 <= Len(systems) THEN "dispatch" ELSE "select"
    /\ UNCHANGED <<program_state, systems, selCalls, argList, selected, seen,
                   seenValid, input, io>>

\* lines 58-60: one iteration of for system in systems.iter_mut(): the
\* component's update runs on program_state and message_queue; the component
\* counts its own updates modulo 2 in st
UpdateOn(small) ==
    /\ pc = "dispatch"
    /\ idx <= Len(systems)
    /\ \E inp \in ClientInputs(message_queue, small) :
        LET w == inp[1]  vs == inp[2]  s == inp[3] IN
        /\ message_queue' = ClientQueue(message_queue, w, vs, tick)
        /\ program_state' = s
        /\ systems' = [systems EXCEPT ![idx].st = 1 - @]
        /\ updated' = Append(updated, systems'[idx])
        /\ pushLog' = pushLog \o Stamp(vs, tick)
        /\ written' = written \cup WritePos(message_queue, w)
        /\ writeVal' = RecordWrite(writeVal, message_queue, w)
    /\ idx' = iter_next(idx)
    /\ pc' = IF idx' <= Len(systems) THEN "dispatch" ELSE "select"
    /\ UNCHANGED <<tick, selCalls, argList, prevUpdated, prevLog, selected,
                   snap, seen,
                   seenValid, input, io>>

Update == UpdateOn(FALSE)

SelectDiscard ==
    /\ pc = "select"
    /\ Selection(systems, FALSE)
    /\ systems' = IF selected' = <<>> THEN <<>> ELSE systems
    /\ pc' = "check"

SelectFreshArg ==
    /\ pc = "select"
    /\ Selection(<<>>, FALSE)
    /\ systems' = selected'
    /\ pc' = "check"

\* line 61: systems = update(&mut program_state, &mut message_queue, systems);
SelectOn(small) ==
    /\ pc = "select"
    /\ Selection(systems, small)
    /\ systems' = selected'
    /\ pc' = "check"

Select == SelectOn(FALSE)

Next == SelectFirst \/ Return \/ Advance \/ Update \/ Select

Spec == Init /\ [][Next]_vars

\* The control flow of run under fairness: run is sequential code, so a
\* step that can be taken is taken (the closure and every update are assumed
\* to return).  The caller's inputs are drawn from the small sets.
FlowSelectFirst == SelectFirstOn(TRUE)

FlowUpdate == UpdateOn(TRUE)

FlowSelect == SelectOn(TRUE)

FlowNext == FlowSelectFirst \/ Return \/ Advance \/ FlowUpdate \/ FlowSelect

FairSpec == Init /\ [][FlowNext]_vars /\ WF_vars(FlowNext)

----------------------------------------------------------------------------
(* The queue on its own: any caller performing any sequence of the public  *)
(* operations of src/message_queue.rs on one MessageQueue.                 *)

QPush ==
    /\ Len(message_queue.next_tick_queue) < MaxQueue
    /\ \E v \in Vals :
        LET m == [val |-> v, born |-> tick] IN
        /\ message_queue' = push(message_queue, m)
        /\ pushLog' = Append(pushLog, m)
    /\ UNCHANGED <<runVars, tick, prevLog, written, seen, seenValid, input, writeVal, io>>

QIterDrain ==
    /\ seen' = iter(message_queue)
    /\ seenValid' = TRUE
    /\ message_queue' = [message_queue EXCEPT !.current_tick_queue = <<>>]
    /\ UNCHANGED <<runVars, tick, pushLog, prevLog, written, input, writeVal, io>>

QIter ==
    /\ seen' = iter(message_queue)
    /\ seenValid' = TRUE
    /\ UNCHANGED <<runVars, message_queue, tick, pushLog, prevLog, written,
                   input, writeVal, io>>

QIterMut ==
    /\ \E w \in Writes(message_queue) \ {<<>>} :
        /\ message_queue' = ApplyWrite(message_queue, w)
        /\ written' = written \cup WritePos(message_queue, w)
        /\ writeVal' = RecordWrite(writeVal, message_queue, w)
        /\ seenValid' = (seenValid /\ WritePos(message_queue, w) = {})
    /\ UNCHANGED <<runVars, tick, pushLog, prevLog, seen, input, io>>

QNextTick ==
    /\ tick < MaxTicks
    /\ message_queue' = next_tick(message_queue)
    /\ tick' = tick + 1
    /\ prevLog' = pushLog
    /\ pushLog' = <<>>
    /\ written' = {}
    /\ writeVal' = NoWrites
    /\ seenValid' = FALSE
    /\ UNCHANGED <<runVars, seen, input, io>>

QNext == QPush \/ QIter \/ QIterMut \/ QNextTick

SpecQueue == Init /\ [][QNext]_vars

----------------------------------------------------------------------------
(* The tests of src/run.rs and src/system.rs: a component that adds every  *)
(* current message to program_state.sum and pushes the sum.  The seed      *)
(* message and the initial sum, 1 and 0 in test_run, are drawn from small  *)
(* sets; program_state is the record [done, sum].                          *)

MaxSeed == 3        \* seed messages are 1..MaxSeed
MaxSum == 3         \* initial sums are 0..MaxSum

Limit == 10         \* run.rs line 86: if 10 < program_state.sum

MaxI32 == 2147483647    \* run.rs line 71: sum: i32

\* i32 addition as a release build computes it (two's complement wrap)
I32Add(a, b) ==
    IF b > 0 /\ a > MaxI32 - b
    THEN ((a - MaxI32) - 1) + ((b - MaxI32) - 1)
    ELSE IF b < 0 /\ a < ((0 - MaxI32) - 1) - b
    THEN ((a + MaxI32) + 1) + ((b + MaxI32) + 1)
    ELSE a + b

RECURSIVE SumFrom(_, _)
SumFrom(sum, ms) ==
    IF ms = <<>> THEN sum ELSE SumFrom(I32Add(sum, Head(ms).val), Tail(ms))

TestSum_next(q, sum) == SumFrom(sum, q.next_tick_queue)

\* run.rs lines 82-84 and system.rs lines 51-53:
\* for message_value in message_queue.iter() { program_state.sum += message_value; }
TestSum(q, sum) == SumFrom(sum, iter(q))

ExceedsOrEqual(sum) == Limit <= sum

\* run.rs line 86
Exceeds(sum) == Limit < sum

TheTestSystem == [id |-> "A", st |-> 0]

InitTestRun ==
    /\ input \in [seed : 1..MaxSeed, sum : 0..MaxSum]
    /\ program_state = [done |-> FALSE, sum |-> input.sum]
    /\ message_queue = new
    /\ systems = <<>>
    /\ pc = "start"
    /\ idx = 0
    /\ tick = 0
    /\ selCalls = 0
    /\ argList = <<>>
    /\ updated = <<>>
    /\ prevUpdated = <<>>
    /\ pushLog = <<>>
    /\ prevLog = <<>>
    /\ written = {}
    /\ selected = <<>>
    /\ snap = NoSnap
    /\ seen = <<>>
    /\ seenValid = FALSE
    /\ writeVal = NoWrites
    /\ io = NoIO

\* run.rs lines 99-114: update_func called with list argument arg
TestRunSelection(arg) ==
    LET seeding == ~program_state.done /\ arg = <<>>
        m == [val |-> input.seed, born |-> tick]
    IN
    /\ selected' = IF program_state.done THEN <<>>
                   ELSE IF arg = <<>> THEN <<TheTestSystem>>
                   ELSE arg
    /\ message_queue' = IF seeding THEN push(message_queue, m)
                        ELSE message_queue
    /\ pushLog' = IF seeding THEN Append(pushLog, m) ELSE pushLog
    /\ argList' = arg
    /\ selCalls' = selCalls + 1
    /\ snap' = [taken |-> TRUE, queue |-> message_queue',
                state |-> program_state, tick |-> tick, updated |-> updated]
    /\ UNCHANGED <<program_state, idx, tick, updated, prevUpdated, prevLog,
                   written, seen, seenValid, input, writeVal, io>>

\* run.rs line 54 with the closure of test_run
TestRunSelectFirst ==
    /\ pc = "start"
    /\ TestRunSelection(<<>>)
    /\ systems' = selected'
    /\ pc' = "check"

\* run.rs lines 58-60 with TestSystem::update of run.rs lines 77-89
TestRunUpdate ==
    /\ pc = "dispatch"
    /\ idx <= Len(systems)
    /\ LET sum == TestSum(message_queue, program_state.sum)
           m == [val |-> sum, born |-> tick]
       IN
       /\ message_queue' = push(message_queue, m)
       /\ pushLog' = Append(pushLog, m)
       /\ program_state' = [done |-> (program_state.done \/ Exceeds(sum)),
                            sum |-> sum]
    /\ updated' = Append(updated, systems[idx])
    /\ idx' = iter_next(idx)
    /\ pc' = IF idx' <= Len(systems) THEN "dispatch" ELSE "select"
    /\ UNCHANGED <<systems, tick, selCalls, argList, prevUpdated, prevLog,
                   written, selected, snap, seen, seenValid, input, writeVal, io>>

\* run.rs line 61 with the closure of test_run
TestRunSelect ==
    /\ pc = "select"
    /\ TestRunSelection(systems)
    /\ systems' = selected'
    /\ pc' = "check"

TestRunNext ==
    TestRunSelectFirst \/ Return \/ Advance \/ TestRunUpdate \/ TestRunSelect

\* run is sequential code and every call of the test returns: a step that
\* can be taken is taken
SpecTestRun ==
    InitTestRun /\ [][TestRunNext]_vars /\ WF_vars(TestRunNext)

\* system.rs, test_system_update: pushes, next_tick calls and updates of
\* TestSystem made directly on one queue, in any order
InitTestSystem ==
    /\ input \in [seed : {0}, sum : 0..MaxSum]
    /\ program_state = [done |-> FALSE, sum |-> input.sum]
    /\ message_queue = new
    /\ systems = <<TheTestSystem>>
    /\ pc = "test"
    /\ idx = 1
    /\ tick = 0
    /\ selCalls = 0
    /\ argList = <<>>
    /\ updated = <<>>
    /\ prevUpdated = <<>>
    /\ pushLog = <<>>
    /\ prevLog = <<>>
    /\ written = {}
    /\ selected = <<>>
    /\ snap = NoSnap
    /\ seen = <<>>
    /\ seenValid = FALSE
    /\ writeVal = NoWrites
    /\ io = NoIO

\* system.rs lines 66-67: message_queue.push(..)
TestSystemPush == QPush

\* system.rs lines 72 and 89: message_queue.next_tick()
TestSystemNextTick ==
    /\ tick < MaxTicks
    /\ message_queue' = next_tick(message_queue)
    /\ tick' = tick + 1
    /\ prevLog' = pushLog
    /\ pushLog' = <<>>
    /\ written' = {}
    /\ writeVal' = NoWrites
    /\ seenValid' = FALSE
    /\ prevUpdated' = Ids(updated)
    /\ updated' = <<>>
    /\ UNCHANGED <<program_state, systems, pc, idx, selCalls, argList,
                   selected, snap, seen, input, io>>

\* system.rs line 81 with TestSystem::update of system.rs lines 46-56
TestSystemUpdate ==
    /\ Len(message_queue.next_tick_queue) < MaxQueue
    /\ LET sum == TestSum(message_queue, program_state.sum)
           m == [val |-> sum, born |-> tick]
       IN
       /\ program_state' = [done |-> TRUE, sum |-> sum]
       /\ message_queue' = push(message_queue, m)
       /\ pushLog' = Append(pushLog, m)
    /\ updated' = Append(updated, systems[idx])
    /\ UNCHANGED <<systems, pc, idx, tick, selCalls, argList, prevUpdated,
                   prevLog, written, selected, snap, seen, seenValid, input, writeVal, io>>

TestSystemNext == TestSystemPush \/ TestSystemNextTick \/ TestSystemUpdate

SpecTestSystem == InitTestSystem /\ [][TestSystemNext]_vars

----------------------------------------------------------------------------
(* The example programs, examples/hello.rs and examples/calculator.rs: run  *)
(* with the components and the selection closure of each main.  A message  *)
(* is [val, born] as before, val being the record [kind, ...] of the        *)
(* example's enum Message.  input is [program, stdin]; stdin is the         *)
(* sequence of lines on standard input, each line the sequence of its       *)
(* whitespace-separated words (hello.rs reads nothing).                     *)

MaxLines == 2       \* most lines on the standard input of the calculator
MaxRunTicks == 14   \* ticks after which an example run is no longer followed

Msg(k) == [kind |-> k]

HelloWorld == "Hello, World!"

LogMsg(text) == [kind |-> "Log", text |-> text]

TheHelloSystem == [id |-> "HelloSystem", st |-> 0]

\* hello.rs lines 100-113: the for loop over iter_mut(), from the locals in r
RECURSIVE HelloScan(_, _)
HelloScan(ms, r) ==
    IF ms = <<>> THEN r
    ELSE LET m == Head(ms).val IN
         HelloScan(Tail(ms),
             CASE m.kind = "Init" -> [r EXCEPT !.init = TRUE]
               [] m.kind = "Log" -> [r EXCEPT !.out = Append(@, m.text)]
               [] m.kind = "Shutdown" -> [r EXCEPT !.done = TRUE])

HelloReply_eager(init, q) ==
    IF init THEN <<LogMsg(HelloWorld)>> ELSE <<Msg("Shutdown")>>

\* hello.rs lines 116-122: what update pushes after the loop
HelloReply(init, q) ==
    IF init THEN <<LogMsg(HelloWorld)>>
    ELSE IF 0 = Len(iter(q)) THEN <<Msg("Shutdown")>>
    ELSE <<>>

\* run.rs lines 58-60 with HelloSystem::update of hello.rs lines 95-123
HelloUpdate ==
    /\ input.program = "hello"
    /\ pc = "dispatch"
    /\ idx <= Len(systems)
    /\ LET r == HelloScan(iter(message_queue),
                          [init |-> FALSE, done |-> program_state.done,
                           out |-> io.out])
           ms == Stamp(HelloReply(r.init, message_queue), tick)
       IN
       /\ program_state' = [done |-> r.done]
       /\ io' = [io EXCEPT !.out = r.out]
       /\ message_queue' = PushAll(message_queue, ms)
       /\ pushLog' = pushLog \o ms
    /\ updated' = Append(updated, systems[idx])
    /\ idx' = iter_next(idx)
    /\ pc' = IF idx' <= Len(systems) THEN "dispatch" ELSE "select"
    /\ UNCHANGED <<systems, tick, selCalls, argList, prevUpdated, prevLog,
                   written, selected, snap, seen, seenValid, input, writeVal>>

\* hello.rs lines 135-150: update_func called with list argument arg
HelloSelection(arg) ==
    LET starting == ~program_state.done /\ arg = <<>>
        ms == IF starting THEN Stamp(<<Msg("Init")>>, tick) ELSE <<>>
    IN
    /\ selected' = IF program_state.done THEN <<>>
                   ELSE IF arg = <<>> THEN <<TheHelloSystem>>
                   ELSE arg
    /\ message_queue' = PushAll(message_queue, ms)
    /\ pushLog' = pushLog \o ms
    /\ argList' = arg
    /\ selCalls' = selCalls + 1
    /\ snap' = [taken |-> TRUE, queue |-> message_queue',
                state |-> program_state, tick |-> tick, updated |-> updated]
    /\ UNCHANGED <<program_state, idx, tick, updated, prevUpdated, prevLog,
                   written, seen, seenValid, input, writeVal, io>>

\* run.rs line 54 with the closure of hello.rs
HelloSelectFirst ==
    /\ input.program = "hello"
    /\ pc = "start"
    /\ HelloSelection(<<>>)
    /\ systems' = selected'
    /\ pc' = "check"

\* run.rs line 61 with the closure of hello.rs
HelloSelect ==
    /\ input.program = "hello"
    /\ pc = "select"
    /\ HelloSelection(systems)
    /\ systems' = selected'
    /\ pc' = "check"

\* run.rs lines 56-58 in an example run
ExamplesAdvance ==
    /\ tick < MaxRunTicks
    /\ Advance

\* calculator.rs: str::parse::<f64>() on the words that stand for numbers
IsF64(w) == w \in {"0", "1"}

F64(w) == IF w = "0" THEN 0 ELSE 1

\* f64 division, exact for the numbers the standard input of the model holds
F64Div(a, b) == a \div b

Cmd(op, arg) == [kind |-> "Command", cmd |-> [op |-> op, arg |-> arg]]

ResultMsg(v) == [kind |-> "Result", value |-> v]

ErrorMsg(text) == [kind |-> "Error", text |-> text]

\* calculator.rs lines 272-286
parse_value_or_variable_command(parts, value_constructor, variable_constructor) ==
    IF parts = <<>> THEN <<>>
    ELSE IF IsF64(parts[1]) THEN <<Cmd(value_constructor, F64(parts[1]))>>
    ELSE <<Cmd(variable_constructor, parts[1])>>

\* calculator.rs lines 178-269; parts[index] of the code is parts[index + 1]
match_command(parts, index) ==
    LET parts_len == Len(parts) - index
        word == parts[index + 1]
        rest == SubSeq(parts, index + 2, Len(parts))
        target == IF index = 1 THEN <<Cmd("TargetVariable", parts[1])>>
                  ELSE <<>>
        Help == [msgs |-> <<>>, help |-> TRUE]
        Only(ms) == [msgs |-> ms, help |-> FALSE]
        Arith(vc, rc) ==
            IF 1 < parts_len
            THEN Only(parse_value_or_variable_command(rest, vc, rc))
            ELSE Help
        body ==
            CASE word \in {"exit", "quit"} -> Only(<<Msg("Shutdown")>>)
              [] word = "help" -> Help
              [] word = "clear" -> Only(<<Cmd("Clear", 0)>>)
              [] word = "+" -> Arith("Add", "VariableAdd")
              [] word = "-" -> Arith("Subtract", "VariableSubtract")
              [] word = "*" -> Arith("Multiply", "VariableMultiply")
              [] word = "/" -> Arith("Divide", "VariableDivide")
              [] word = "=" -> Arith("SetValue", "VariableSetValue")
              [] word = "set" ->
                    IF 1 < parts_len
                    THEN Only(<<Cmd("StoreVariable", parts[index + 2])>>)
                    ELSE Help
              [] OTHER -> Only(<<>>)
    IN
    IF parts_len < 1
    THEN IF index = 0 THEN <<Cmd("Clear", 0)>>
         ELSE IF IsF64(parts[1]) THEN <<Cmd("SetValue", F64(parts[1]))>>
         ELSE <<Cmd("LoadVariable", parts[1])>>
    ELSE target \o body.msgs
         \o (IF body.help THEN <<Msg("Help"), Msg("FlushOutput")>> ELSE <<>>)

\* calculator.rs lines 161-175
parse_command(parts) ==
    IF parts = <<>> THEN <<Cmd("Clear", 0)>>
    ELSE IF match_command(parts, 0) = <<>> THEN match_command(parts, 1)
    ELSE match_command(parts, 0)

\* HashMap::entry(name).or_insert(0.0): the map afterwards, and the value
Entry(variables, name) ==
    IF name \in DOMAIN variables THEN variables ELSE (name :> 0) @@ variables

Lookup(variables, name) ==
    IF name \in DOMAIN variables THEN variables[name] ELSE 0

\* HashMap::insert(name, value)
Insert(variables, name, value) == (name :> value) @@ variables

DivisionByZero(r) ==
    [r EXCEPT !.error = TRUE,
              !.new = Append(@, ErrorMsg("Division by zero"))]

\* calculator.rs lines 439-540: one Message::Command arm on the locals r
\* (r.variables is program_state.variables); stored is program_state.accumulator
CalcCommand(c, r, stored) ==
    LET value == Lookup(r.variables, c.arg)
        t == [r EXCEPT !.variables = Entry(@, c.arg), !.flush_output = TRUE]
        f == [r EXCEPT !.flush_output = TRUE]
    IN
    CASE c.op = "Add" -> [f EXCEPT !.accumulator = @ + c.arg]
      [] c.op = "Subtract" -> [f EXCEPT !.accumulator = @ - c.arg]
      [] c.op = "Multiply" -> [f EXCEPT !.accumulator = @ * c.arg]
      [] c.op = "Divide" ->
            IF c.arg # 0 THEN [f EXCEPT !.accumulator = F64Div(@, c.arg)]
            ELSE DivisionByZero(r)
      [] c.op = "SetValue" -> [f EXCEPT !.accumulator = c.arg]
      [] c.op = "VariableAdd" -> [t EXCEPT !.accumulator = @ + value]
      [] c.op = "VariableSubtract" -> [t EXCEPT !.accumulator = @ - value]
      [] c.op = "VariableMultiply" -> [t EXCEPT !.accumulator = @ * value]
      [] c.op = "VariableDivide" ->
            IF value # 0 THEN [t EXCEPT !.accumulator = F64Div(@, value)]
            ELSE DivisionByZero([r EXCEPT !.variables = Entry(@, c.arg)])
      [] c.op = "VariableSetValue" -> [t EXCEPT !.accumulator = value]
      [] c.op = "TargetVariable" ->
            [t EXCEPT !.is_variable_target = TRUE,
                      !.variable_target_name = c.arg,
                      !.accumulator = value]
      [] c.op = "LoadVariable" -> [t EXCEPT !.accumulator = value]
      [] c.op = "StoreVariable" ->
            [f EXCEPT !.is_variable_target = TRUE,
                      !.variable_target_name = c.arg,
                      !.accumulator = stored]
      [] c.op = "Clear" -> [f EXCEPT !.accumulator = 0]

\* calculator.rs lines 434-543: the for loop of CalculatorSystem::update
RECURSIVE CalcScan(_, _, _)
CalcScan(ms, r, stored) ==
    IF ms = <<>> THEN r
    ELSE LET m == Head(ms).val IN
         CalcScan(Tail(ms),
             CASE m.kind = "Init" -> [r EXCEPT !.flush_output = TRUE]
               [] m.kind = "Command" -> CalcCommand(m.cmd, r, stored)
               [] OTHER -> r,
             stored)

Reverse(l) == [i \in DOMAIN l |-> l[Len(l) + 1 - i]]

\* run.rs lines 58-60 with CalculatorSystem::update of calculator.rs lines 423-561
CalculatorUpdate ==
    /\ input.program = "calculator"
    /\ pc = "dispatch"
    /\ idx <= Len(systems)
    /\ systems[idx].id = "CalculatorSystem"
    /\ LET r == CalcScan(iter(message_queue),
                         [accumulator |-> program_state.accumulator,
                          flush_output |-> FALSE,
                          error |-> FALSE,
                          is_variable_target |-> FALSE,
                          variable_target_name |-> "",
                          new |-> <<>>,
                          variables |-> program_state.variables],
                         program_state.accumulator)
           new_messages ==
               r.new
               \o (IF ~r.error THEN <<ResultMsg(r.accumulator)>> ELSE <<>>)
               \o (IF r.flush_output THEN <<Msg("FlushOutput")>> ELSE <<>>)
           \* lines 557-560: the messages are popped from the end
           ms == Stamp(Reverse(new_messages), tick)
       IN
       /\ program_state' =
             IF r.is_variable_target
             THEN [program_state EXCEPT !.variables =
                      Insert(r.variables, r.variable_target_name, r.accumulator)]
             ELSE [program_state EXCEPT !.variables = r.variables,
                                        !.accumulator = r.accumulator]
       /\ message_queue' = PushAll(message_queue, ms)
       /\ pushLog' = pushLog \o ms
    /\ updated' = Append(updated, systems[idx])
    /\ idx' = iter_next(idx)
    /\ pc' = IF idx' <= Len(systems) THEN "dispatch" ELSE "select"
    /\ UNCHANGED <<systems, tick, selCalls, argList, prevUpdated, prevLog,
                   written, selected, snap, seen, seenValid, input, writeVal,
                   io>>

\* calculator.rs lines 580-588: OutputSystem::new
OutputNew ==
    [target |-> "Value", value |-> 0, help |-> FALSE, log_messages |-> <<>>,
     error_messages |-> <<>>]

\* calculator.rs lines 590-613: the lines flush_output prints
FlushLines(st) ==
    [i \in DOMAIN st.log_messages |->
        [line |-> "log", text |-> st.log_messages[i]]]
    \o [i \in DOMAIN st.error_messages |->
        [line |-> "Error", text |-> st.error_messages[i]]]
    \o (IF st.help THEN <<[line |-> "Commands"]>>
        ELSE <<[line |-> "result", target |-> st.target, value |-> st.value]>>)
    \o <<[line |-> "prompt"]>>

\* calculator.rs lines 642-671: the for loop of OutputSystem::update on
\* r = [st, flush_output, returned, out]; ps is the program state
RECURSIVE OutputScan(_, _, _)
OutputScan(ms, r, ps) ==
    IF ms = <<>> \/ r.returned THEN r
    ELSE LET m == Head(ms).val IN
         OutputScan(Tail(ms),
             CASE m.kind = "Init" -> [r EXCEPT !.returned = TRUE]
               [] m.kind = "Shutdown" ->
                     [r EXCEPT !.returned = TRUE,
                               !.out = IF ps.batch_mode
                                       THEN Append(@, [line |-> "batch",
                                                       value |-> ps.accumulator])
                                       ELSE @]
               [] m.kind = "Result" -> [r EXCEPT !.st.value = m.value]
               [] m.kind = "Error" ->
                     [r EXCEPT !.st.error_messages = Append(@, m.text)]
               [] m.kind = "Log" ->
                     [r EXCEPT !.st.log_messages = Append(@, m.text)]
               [] m.kind = "Help" -> [r EXCEPT !.st.help = TRUE]
               [] m.kind = "Command" /\ m.cmd.op = "TargetVariable" ->
                     [r EXCEPT !.st.target = m.cmd.arg]
               [] m.kind = "FlushOutput" -> [r EXCEPT !.flush_output = TRUE]
               [] OTHER -> r,
             ps)

\* run.rs lines 58-60 with OutputSystem::update of calculator.rs lines 634-681
OutputUpdate ==
    /\ input.program = "calculator"
    /\ pc = "dispatch"
    /\ idx <= Len(systems)
    /\ systems[idx].id = "OutputSystem"
    /\ LET start == [st |-> systems[idx].st, flush_output |-> FALSE,
                     returned |-> program_state.done, out |-> io.out]
           r == OutputScan(iter(message_queue), start, program_state)
           flushes == r.flush_output /\ ~r.returned
           prints == flushes /\ ~program_state.batch_mode
           ms == IF flushes THEN Stamp(<<Msg("PollInput")>>, tick) ELSE <<>>
       IN
       /\ systems' = [systems EXCEPT ![idx].st =
                         IF prints THEN OutputNew ELSE r.st]
       /\ io' = [io EXCEPT !.out =
                    IF prints THEN r.out \o FlushLines(r.st) ELSE r.out]
       /\ message_queue' = PushAll(message_queue, ms)
       /\ pushLog' = pushLog \o ms
    /\ updated' = Append(updated, systems'[idx])
    /\ idx' = iter_next(idx)
    /\ pc' = IF idx' <= Len(systems) THEN "dispatch" ELSE "select"
    /\ UNCHANGED <<program_state, tick, selCalls, argList, prevUpdated,
                   prevLog, written, selected, snap, seen, seenValid, input,
                   writeVal>>

\* calculator.rs lines 376-390: the for loop of InputSystem::update on
\* r = [do_poll_input, returned, init]
RECURSIVE InputScan(_, _)
InputScan(ms, r) ==
    IF ms = <<>> \/ r.returned THEN r
    ELSE LET m == Head(ms).val IN
         InputScan(Tail(ms),
             CASE m.kind = "Init" -> [r EXCEPT !.returned = TRUE, !.init = TRUE]
               [] m.kind = "Shutdown" -> [r EXCEPT !.returned = TRUE]
               [] m.kind = "PollInput" -> [r EXCEPT !.do_poll_input = TRUE]
               [] OTHER -> r)

\* calculator.rs lines 288-319: the line read_input returns, <<>> at end of
\* input (and for a line without words)
read_input(stdin, pos) == IF pos < Len(stdin) THEN stdin[pos + 1] ELSE <<>>

HasShutdown(ms) == \E i \in DOMAIN ms : ms[i].kind = "Shutdown"

\* run.rs lines 58-60 with InputSystem::update of calculator.rs lines 367-404.
\* check_for_batch_mode (lines 344-363) reads what is on standard input at
\* startup without blocking: a first line "batch" that is already there
\* (available) is consumed and sets batch_mode; the other lines are taken to
\* arrive later.
InputUpdate ==
    /\ input.program = "calculator"
    /\ pc = "dispatch"
    /\ idx <= Len(systems)
    /\ systems[idx].id = "InputSystem"
    /\ \E available \in BOOLEAN :
        LET r == InputScan(iter(message_queue),
                           [do_poll_input |-> FALSE,
                            returned |-> program_state.done,
                            init |-> FALSE])
            batch == /\ r.init
                     /\ available
                     /\ read_input(input.stdin, io.pos) = <<"batch">>
            polls == r.do_poll_input /\ ~r.returned
            line == read_input(input.stdin, io.pos)
            is_eof == line = <<>>
            commands == IF ~polls THEN <<>>
                        ELSE IF ~is_eof THEN parse_command(line)
                        ELSE <<Msg("Shutdown")>>
            ms == Stamp(commands, tick)
        IN
        /\ program_state' = IF batch
                            THEN [program_state EXCEPT !.batch_mode = TRUE]
                            ELSE program_state
        /\ io' = [io EXCEPT
                    !.pos = IF batch \/ (polls /\ ~is_eof) THEN @ + 1 ELSE @,
                    !.reads = IF polls THEN @ + 1 ELSE @,
                    !.shutdownTick =
                        IF @ = 0 /\ HasShutdown(commands) THEN tick ELSE @]
        /\ message_queue' = PushAll(message_queue, ms)
        /\ pushLog' = pushLog \o ms
    /\ updated' = Append(updated, systems[idx])
    /\ idx' = iter_next(idx)
    /\ pc' = IF idx' <= Len(systems) THEN "dispatch" ELSE "select"
    /\ UNCHANGED <<systems, tick, selCalls, argList, prevUpdated, prevLog,
                   written, selected, snap, seen, seenValid, input, writeVal>>

\* calculator.rs lines 700-704: the components main constructs
TheCalculatorSystems ==
    <<[id |-> "CalculatorSystem", st |-> 0],
      [id |-> "OutputSystem", st |-> OutputNew],
      [id |-> "InputSystem", st |-> 0]>>

NotLog(m) == m.val.kind # "Log"

\* calculator.rs lines 714-718: the non-Log messages of the current buffer
LogLine(t, q) ==
    LET shown == SelectSeq(iter(q), NotLog) IN
    [tick |-> t, messages |-> [i \in DOMAIN shown |-> shown[i].val]]

CalcDone_next(q) ==
    \/ HasShutdown([i \in DOMAIN iter(q) |-> iter(q)[i].val])
    \/ HasShutdown([i \in DOMAIN q.next_tick_queue |->
                       q.next_tick_queue[i].val])

\* calculator.rs lines 727-729: any current message is Shutdown
CalcDone(q) == HasShutdown([i \in DOMAIN iter(q) |-> iter(q)[i].val])

\* calculator.rs lines 689-732: update_func called with list argument arg;
\* program_state.tick is a u32 that stays far below its width here
CalcSelection(arg) ==
    LET starting == ~program_state.done /\ arg = <<>>
        t == program_state.tick + 1
        first == IF starting THEN <<Msg("Init")>> ELSE <<>>
        ms == Stamp(first \o <<LogMsg(LogLine(t, message_queue))>>, tick)
    IN
    /\ selected' = IF program_state.done THEN <<>>
                   ELSE IF arg = <<>> THEN TheCalculatorSystems
                   ELSE arg
    /\ message_queue' = PushAll(message_queue, ms)
    /\ pushLog' = pushLog \o ms
    /\ program_state' = [program_state EXCEPT !.tick = t,
                                              !.done = CalcDone(message_queue)]
    /\ argList' = arg
    /\ selCalls' = selCalls + 1
    /\ snap' = [taken |-> TRUE, queue |-> message_queue',
                state |-> program_state', tick |-> tick, updated |-> updated]
    /\ UNCHANGED <<idx, tick, updated, prevUpdated, prevLog, written, seen,
                   seenValid, input, writeVal, io>>

\* run.rs line 54 with the closure of calculator.rs
CalcSelectFirst ==
    /\ input.program = "calculator"
    /\ pc = "start"
    /\ CalcSelection(<<>>)
    /\ systems' = selected'
    /\ pc' = "check"

\* run.rs line 61 with the closure of calculator.rs
CalcSelect ==
    /\ input.program = "calculator"
    /\ pc = "select"
    /\ CalcSelection(systems)
    /\ systems' = selected'
    /\ pc' = "check"

\* the lines the standard input of the calculator is made of
Lines ==
    {<<"+", "1">>, <<"/", "0">>, <<"/", "x">>, <<"x", "/", "0">>,
     <<"help">>, <<"x", "help">>, <<"exit">>, <<"batch">>}

\* hello.rs lines 128-129 and calculator.rs lines 687-688
InitExamples ==
    /\ input \in {[program |-> "hello", stdin |-> <<>>]}
                 \cup [program : {"calculator"}, stdin : SeqsUpTo(Lines, MaxLines)]
    /\ program_state =
          IF input.program = "hello" THEN [done |-> FALSE]
          ELSE [tick |-> 0, variables |-> <<>>, accumulator |-> 0,
                batch_mode |-> FALSE, done |-> FALSE]
    /\ message_queue = new
    /\ systems = <<>>
    /\ pc = "start"
    /\ idx = 0
    /\ tick = 0
    /\ selCalls = 0
    /\ argList = <<>>
    /\ updated = <<>>
    /\ prevUpdated = <<>>
    /\ pushLog = <<>>
    /\ prevLog = <<>>
    /\ written = {}
    /\ selected = <<>>
    /\ snap = NoSnap
    /\ seen = <<>>
    /\ seenValid = FALSE
    /\ writeVal = NoWrites
    /\ io = NoIO

ExamplesNext ==
    \/ HelloSelectFirst \/ HelloUpdate \/ HelloSelect
    \/ CalcSelectFirst \/ CalculatorUpdate \/ OutputUpdate \/ InputUpdate
    \/ CalcSelect
    \/ Return \/ ExamplesAdvance

\* run is sequential code and every call of the examples returns: a step
\* that can be taken is taken
SpecExamples ==
    InitExamples /\ [][ExamplesNext]_vars /\ WF_vars(ExamplesNext)

----------------------------------------------------------------------------
(* Properties *)

Cur == message_queue.current_tick_queue
Nxt == message_queue.next_tick_queue

\* C1: iter() returns none of the messages pushed since the latest
\* next_tick; once a next_tick has been performed, iter() returns exactly the
\* messages pushed before it (since the next_tick before that one), in push
\* order and no others, for as long as no value has been overwritten through
\* iter_mut.  The stored result of an iter() call is one of the two.
C1_PushThenIter ==
    /\ \A i \in DOMAIN iter(message_queue), j \in DOMAIN pushLog :
           iter(message_queue)[i] # pushLog[j]
    /\ tick = 0 => iter(message_queue) = <<>>
    /\ (tick >= 1 /\ written = {}) => iter(message_queue) = prevLog
    /\ \A i \in DOMAIN seen, j \in DOMAIN pushLog : seen[i] # pushLog[j]

C1_Witness ==
    /\ tick >= 1
    /\ Len(prevLog) = 2
    /\ prevLog[1].val # prevLog[2].val
    /\ pushLog # <<>>
    /\ written = {}
    /\ seen = prevLog

\* C2 as stated: whenever a component is about to be updated, the current
\* buffer is exactly the sequence of messages pushed during the previous
\* tick (components in list order, then the selection call).
C2_Original ==
    (pc = "dispatch" /\ idx <= Len(systems)) => Cur = prevLog

\* C2 amended: at the start of each tick's dispatch the current buffer is
\* exactly the sequence of messages pushed during the previous tick, in call
\* order; during the tick it keeps that length and order, and a position
\* differs from the pushed message only in a value that was overwritten
\* through iter_mut during this tick.
C2_Amended ==
    pc \in {"dispatch", "select"} =>
        /\ Len(Cur) = Len(prevLog)
        /\ \A i \in DOMAIN Cur :
            /\ i \notin written => Cur[i] = prevLog[i]
            /\ Cur[i].born = prevLog[i].born
        /\ (pc = "dispatch" /\ idx = 1) => Cur = prevLog

C2_Witness ==
    /\ pc = "dispatch"
    /\ tick = 2
    /\ idx = 2
    /\ Len(prevLog) = 2
    /\ prevLog[1].val # prevLog[2].val
    /\ Len(prevUpdated) = 2
    /\ written # {}
    /\ Cur # prevLog

\* C3: a message pushed during tick N (born = N) is not in the current
\* buffer during tick N and not during tick N+2 or later: every message of
\* the current buffer was pushed during the tick before the present one.
C3_VisibleOneTick ==
    \A i \in DOMAIN Cur :
        /\ Cur[i].born # tick
        /\ tick < Cur[i].born + 2

C3_Witness ==
    /\ tick = 2
    /\ pc = "select"
    /\ Len(systems) = 2
    /\ Len(Cur) > 0
    /\ Len(Nxt) > 0
    /\ written # {}

\* C4: run returns only after a selection call returned the empty list;
\* after a selection call that returned a non-empty list the next step is
\* the next_tick of another tick, whatever the queue holds; after a
\* selection call that returned the empty list run returns.
C4_ReturnsIffEmptySelection ==
    /\ [](pc = "done" => (selCalls >= 1 /\ selected = <<>>))
    /\ [][(pc = "check" /\ selected # <<>>) =>
              (pc' # "done" /\ tick' = tick + 1)]_vars
    /\ \A k \in 0..MaxTicks :
          (pc = "check" /\ selected # <<>> /\ tick = k)
              ~> (pc = "select" /\ tick = k + 1)
    /\ (pc = "check" /\ selected = <<>>) ~> (pc = "done")

C4_Witness ==
    /\ pc = "done"
    /\ tick = 2
    /\ Cur = <<>>
    /\ Nxt = <<>>

\* C5: once a selection call has returned the empty list, the queue, the
\* state, the number of next_tick calls and the updates performed stay as
\* that call left them; when it was the first call, no tick has executed.
C5_NothingAfterEmptySelection ==
    (selCalls >= 1 /\ selected = <<>>) =>
        /\ snap.taken
        /\ message_queue = snap.queue
        /\ program_state = snap.state
        /\ tick = snap.tick
        /\ updated = snap.updated
        /\ selCalls = 1 => (tick = 0 /\ updated = <<>> /\ Cur = <<>>)

C5_Witness ==
    /\ pc = "done"
    /\ selCalls = 1
    /\ Len(Nxt) = 2
    /\ program_state = 1

\* C6: a selection call happens only when as many next_tick calls as
\* selection calls have been made (none before the first, one between two
\* consecutive calls); a next_tick happens only right after a selection
\* call and before any update of its tick; updates happen only between the
\* next_tick of their tick and the following selection call; a terminated
\* run has made ticks + 1 selection calls.
C6_PhaseOrder ==
    /\ [](pc = "done" => selCalls = tick + 1)
    /\ [][/\ selCalls' # selCalls =>
                (/\ selCalls' = selCalls + 1
                 /\ selCalls = tick
                 /\ tick' = tick
                 /\ updated' = updated
                 /\ selCalls = 0 => updated = <<>>)
          /\ tick' # tick =>
                (/\ tick' = tick + 1
                 /\ selCalls = tick + 1
                 /\ selCalls' = selCalls
                 /\ updated' = <<>>)
          /\ (updated' # updated /\ updated' # <<>>) =>
                (/\ tick >= 1
                 /\ selCalls = tick
                 /\ selCalls' = selCalls
                 /\ tick' = tick)]_vars

C6_Witness ==
    /\ pc = "done"
    /\ tick = 2
    /\ selCalls = 3
    /\ Len(updated) = 2

\* C7: during a tick the components updated so far are exactly the first
\* idx - 1 components of the list, in list order, and when the dispatch is
\* complete every component of the list has been updated exactly once.
C7_EachOnceInOrder ==
    /\ pc = "dispatch" =>
          (/\ idx \in 1..Len(systems)
           /\ Ids(updated) = SubSeq(Ids(systems), 1, idx - 1))
    /\ pc = "select" =>
          (/\ Ids(updated) = Ids(systems)
           /\ \A c \in Components :
                 Cardinality({i \in DOMAIN updated : updated[i].id = c})
                     = Cardinality({i \in DOMAIN systems : systems[i].id = c}))

C7_Witness ==
    /\ pc = "select"
    /\ Len(systems) = 2
    /\ Ids(updated) = Ids(systems)

\* C8: the components dispatched in tick k are the list returned by the
\* k-th selection call, in its order.
C8_DispatchIsSelected ==
    /\ pc \in {"dispatch", "select"} =>
          (/\ selCalls = tick
           /\ Ids(systems) = Ids(selected))
    /\ pc = "select" => Ids(updated) = Ids(selected)

C8_Witness ==
    /\ pc = "select"
    /\ prevUpdated = <<"A", "B">>
    /\ Ids(updated) = <<"B", "A">>

\* C9: the list argument of a selection call is empty exactly when it is
\* the first call, and no tick runs with an empty component list.
C9_EmptyArgIffFirst ==
    /\ selCalls >= 1 => (argList = <<>> <=> selCalls = 1)
    /\ pc \in {"dispatch", "select"} => systems # <<>>
    /\ tick >= 1 => updated # <<>> \/ pc = "dispatch"

C9_Witness ==
    /\ selCalls = 3
    /\ argList # <<>>
    /\ pc = "check"

\* C10: every selection call after the first receives the components just
\* dispatched, in dispatch order and as their updates left them, which are
\* the components returned by the previous selection call.
C10_ArgIsDispatched ==
    [][(selCalls' # selCalls /\ selCalls >= 1) =>
          (/\ argList' = updated
           /\ Ids(argList') = Ids(selected))]_vars

C10_Witness ==
    /\ selCalls = 3
    /\ pc = "check"
    /\ Len(argList) = 2
    /\ argList[1].st # argList[2].st
    /\ argList = updated

\* C15: a next_tick makes the current buffer exactly the previous next
\* buffer (same messages, same order), empties the next buffer, and no
\* message of the previous current buffer is left in either buffer.
C15_NextTickSwaps ==
    [][tick' = tick + 1 =>
          (/\ Cur' = Nxt
           /\ Nxt' = <<>>
           /\ \A i \in DOMAIN Cur :
                 /\ \A j \in DOMAIN Cur' : Cur'[j] # Cur[i]
                 /\ \A j \in DOMAIN Nxt' : Nxt'[j] # Cur[i])]_vars

C15_Witness ==
    /\ tick = 2
    /\ Len(Cur) = 2
    /\ Cur[1].val # Cur[2].val
    /\ Nxt = <<>>
    /\ seen # <<>>
    /\ seen[1].born = 0

\* C16: a newly created queue has nothing to iterate, and a next_tick made
\* while both buffers are empty leaves both buffers empty, so that iter()
\* yields nothing before and after it.
C16_EmptyStaysEmpty ==
    /\ []((tick = 0 /\ pushLog = <<>>) =>
             (iter(message_queue) = <<>> /\ Nxt = <<>>))
    /\ [][(tick' = tick + 1 /\ Cur = <<>> /\ Nxt = <<>>) =>
              (/\ Cur' = <<>>
               /\ Nxt' = <<>>
               /\ iter(message_queue) = <<>>
               /\ iter(message_queue') = <<>>)]_vars

C16_Witness ==
    /\ tick = 1
    /\ prevLog = <<>>
    /\ pushLog = <<>>
    /\ Cur = <<>>
    /\ Nxt = <<>>
    /\ seenValid
    /\ seen = <<>>

\* C17: after two next_tick calls with no push between them the current
\* buffer is empty, and the next buffer holds only what was pushed after the
\* second call (nothing right after it).
C17_TwoTicksEmpty ==
    (tick >= 2 /\ prevLog = <<>>) => (Cur = <<>> /\ Nxt = pushLog)

C17_Witness ==
    /\ tick = 2
    /\ prevLog = <<>>
    /\ pushLog = <<>>
    /\ Len(seen) = 2
    /\ Cur = <<>>
    /\ Nxt = <<>>

\* C18: as long as no next_tick and no iter_mut change has followed an
\* iter() call, the current buffer is still what that call returned, so a
\* second iter() returns the identical sequence; a push in between changes
\* neither that result nor the current buffer, and iter() leaves the next
\* buffer equal to the pushes made since the latest next_tick.
C18_IterIsPureRead ==
    /\ [](seenValid => (seen = iter(message_queue) /\ Nxt = pushLog))
    /\ [][(seenValid /\ pushLog' # pushLog /\ tick' = tick) =>
              (/\ seenValid'
               /\ seen' = seen
               /\ iter(message_queue') = seen)]_vars

C18_Witness ==
    /\ seenValid
    /\ Len(seen) = 2
    /\ seen[1].val # seen[2].val
    /\ Len(pushLog) = 2
    /\ written = {}

\* C19: a push appends its message at the end of the next buffer and
\* leaves the current buffer and the earlier messages of the next buffer as
\* they are; between two next_tick calls the current buffer neither gains
\* nor loses a message; no iter() result contains a message of the next
\* buffer.
C19_PushFrame ==
    /\ [](\A i \in DOMAIN seen, j \in DOMAIN Nxt : seen[i] # Nxt[j])
    /\ [][/\ (tick' = tick /\ pushLog' # pushLog) =>
                (/\ Nxt' = Append(Nxt, pushLog'[Len(pushLog')])
                 /\ Cur' = Cur)
          /\ tick' = tick =>
                (/\ Len(Cur') = Len(Cur)
                 /\ \A i \in DOMAIN Cur : Cur'[i].born = Cur[i].born)]_vars

C19_Witness ==
    /\ tick = 1
    /\ Len(Cur) = 2
    /\ Len(Nxt) = 2
    /\ Nxt[1].val # Nxt[2].val
    /\ seen = Cur

\* C20 as stated: between two next_tick calls no step of a component or of
\* the selection closure changes a message of either buffer.
C20_Original ==
    [][tick' = tick =>
          (/\ \A i \in DOMAIN Cur : Cur'[i] = Cur[i]
           /\ \A i \in DOMAIN Nxt : Nxt'[i] = Nxt[i])]_vars

\* C20 amended: a message is never changed while it is in the next buffer
\* and it becomes current with the value it was pushed with; while it is in
\* the current buffer its value changes only by an in-place write through
\* iter_mut.
C20_Amended ==
    [][/\ tick' = tick =>
             (/\ \A i \in DOMAIN Nxt : Nxt'[i] = Nxt[i]
              /\ \A i \in DOMAIN Cur :
                    \/ Cur'[i] = Cur[i]
                    \/ (i \in written' /\ Cur'[i].born = Cur[i].born))
       /\ tick' = tick + 1 => (Cur' = Nxt /\ Cur' = pushLog)]_vars

C20_Witness ==
    /\ pc = "dispatch"
    /\ tick = 2
    /\ written # {}
    /\ Len(Nxt) = 2
    /\ \E i \in DOMAIN Cur : Cur[i] # prevLog[i]

\* C11: in the run of test_run every selection call returns the empty list
\* exactly when program_state.sum exceeds 10 at that call, so run exits at
\* the first selection call at which the sum exceeds 10, not earlier and not
\* later; and the run terminates.  Checked for every seed and initial sum of
\* the bounds, the test's 1 and 0 among them.
C11_ExitsWhenSumExceeds ==
    /\ [](pc \in {"check", "done"} =>
             (selected = <<>> <=> program_state.sum > Limit))
    /\ [](pc \in {"dispatch", "select"} => selected # <<>>)
    /\ [](pc = "done" => program_state.sum > Limit)
    /\ <>(pc = "done")

C11_Witness ==
    /\ input = [seed |-> 1, sum |-> 0]
    /\ pc = "done"
    /\ program_state.sum > Limit
    /\ program_state.done
    /\ prevLog # <<>>
    /\ prevLog[1].val <= Limit

\* C12 as stated: the run of test_run (seed 1, initial sum 0) ends after
\* exactly 4 ticks.
C12_Original ==
    (input = [seed |-> 1, sum |-> 0] /\ pc = "done") => tick = 4

\* C12 amended: the run of test_run (seed 1, initial sum 0) ends after
\* exactly 5 ticks, the sums after the ticks being 1, 2, 4, 8, 16.
C12_Amended ==
    input = [seed |-> 1, sum |-> 0] =>
        /\ pc = "done" => (tick = 5 /\ program_state.sum = 16)
        /\ pc = "select" =>
              \/ tick = 1 /\ program_state.sum = 1
              \/ tick = 2 /\ program_state.sum = 2
              \/ tick = 3 /\ program_state.sum = 4
              \/ tick = 4 /\ program_state.sum = 8
              \/ tick = 5 /\ program_state.sum = 16

C12_Witness ==
    /\ input = [seed |-> 1, sum |-> 0]
    /\ pc = "done"
    /\ tick = 5
    /\ selCalls = 6

\* C13: an update of the summing component sets the sum to its old value
\* plus the values of all current messages, leaves the current buffer as it
\* is and appends exactly one message, the new sum, to the next buffer; when
\* that message is all that was pushed before the following next_tick, it is
\* the only current message after it.
C13_SumUpdate ==
    [][/\ Len(updated') = Len(updated) + 1 =>
             (/\ program_state'.sum = SumFrom(program_state.sum, Cur)
              /\ Cur' = Cur
              /\ Nxt' = Append(Nxt, [val |-> program_state'.sum,
                                     born |-> tick]))
       /\ (tick' = tick + 1 /\ Len(updated) = 1 /\ Len(pushLog) = 1) =>
             Cur' = <<[val |-> program_state.sum, born |-> tick]>>]_vars

C13_Witness ==
    /\ input.sum = 0
    /\ tick = 2
    /\ prevUpdated = <<"A">>
    /\ program_state.sum = 3
    /\ Cur = <<[val |-> 3, born |-> 1]>>
    /\ Nxt = <<>>

\* C14 as stated: with initial sum 0, after push(1), push(2), one next_tick
\* and one update of the summing component, the sum is still 0.
C14_Original ==
    (/\ input.sum = 0
     /\ tick = 1
     /\ prevUpdated = <<>>
     /\ Len(prevLog) = 2 /\ prevLog[1].val = 1 /\ prevLog[2].val = 2
     /\ Len(updated) = 1)
        => program_state.sum = 0

\* C14 amended: with initial sum 0, after push(1), push(2), one next_tick
\* and one update of the summing component, the sum is 3: the next_tick made
\* both messages current before the update ran.
C14_Amended ==
    (/\ input.sum = 0
     /\ tick = 1
     /\ prevUpdated = <<>>
     /\ Len(prevLog) = 2 /\ prevLog[1].val = 1 /\ prevLog[2].val = 2
     /\ Len(updated) = 1)
        => (/\ program_state.sum = 3
            /\ \E i \in DOMAIN Nxt : Nxt[i] = [val |-> 3, born |-> 1])

C14_Witness ==
    /\ input.sum = 0
    /\ tick = 1
    /\ prevUpdated = <<>>
    /\ Len(prevLog) = 2 /\ prevLog[1].val = 1 /\ prevLog[2].val = 2
    /\ Len(updated) = 1
    /\ program_state.done

\* C21: a step that overwrites values through iter_mut changes values of
\* the current buffer only: the current buffer keeps its length and every
\* position keeps its message (same push, same place), and the next buffer
\* and the record of pushes are exactly as before.
C21_IterMutFrame ==
    [][(tick' = tick /\ writeVal' # writeVal) =>
          (/\ Cur' # Cur
           /\ Len(Cur') = Len(Cur)
           /\ \A i \in DOMAIN Cur : Cur'[i].born = Cur[i].born
           /\ Nxt' = Nxt
           /\ pushLog' = pushLog)]_vars

C21_Witness ==
    /\ tick = 1
    /\ Len(Cur) = 2
    /\ DOMAIN writeVal = {2}
    /\ Cur[2].val = writeVal[2]
    /\ Cur[2].val # prevLog[2].val
    /\ Cur[1] = prevLog[1]
    /\ Len(Nxt) = 2
    /\ Nxt[1].val # Nxt[2].val

\* C22 as stated: from the next_tick of a tick to the selection call that
\* ends it, no step changes the current buffer: every component of the tick
\* and the selection call see the same messages.
C22_Original ==
    [][(tick' = tick /\ tick >= 1) => Cur' = Cur]_vars

\* C22 amended: within one tick the current buffer keeps its length, and
\* every position keeps its message (the same push of the previous tick),
\* during every update and the selection call that follows, so no component
\* can remove, add or reorder a message; the value at a position changes
\* only when a component or the selection call overwrites it through
\* iter_mut, and is then what was written.
C22_Amended ==
    /\ [](pc \in {"dispatch", "select"} =>
             (/\ Len(Cur) = Len(prevLog)
              /\ \A i \in DOMAIN Cur : Cur[i].born = tick - 1))
    /\ [][tick' = tick =>
             (/\ Len(Cur') = Len(Cur)
              /\ \A i \in DOMAIN Cur :
                    /\ Cur'[i].born = Cur[i].born
                    /\ Cur'[i].val # Cur[i].val =>
                          (/\ i \in DOMAIN writeVal'
                           /\ writeVal'[i] = Cur'[i].val))]_vars

C22_Witness ==
    /\ pc = "select"
    /\ tick = 2
    /\ Len(systems) = 2
    /\ Len(Cur) = 2
    /\ DOMAIN writeVal = {1}
    /\ Cur[1].val # prevLog[1].val
    /\ Cur[2] = prevLog[2]

\* C23: in every reachable queue state each operation can be performed and
\* yields a queue: iter() and next_tick() are enabled whatever the buffers
\* hold, iter_mut() whenever there is a position to assign, and push() with
\* any value, the longest next buffer included: push appends its message and
\* the buffer grows by one, it is never turned down for capacity.  A new
\* queue is the state with both buffers empty.
C23_Total ==
    /\ ENABLED QIter
    /\ tick < MaxTicks => ENABLED QNextTick
    /\ Cur # <<>> => ENABLED QIterMut
    /\ Len(Nxt) < MaxQueue => ENABLED QPush
    /\ (tick = 0 /\ pushLog = <<>>) => message_queue = new
    /\ iter(message_queue) = Cur
    /\ next_tick(message_queue) =
          [current_tick_queue |-> Nxt, next_tick_queue |-> <<>>]
    /\ \A v \in Vals :
          LET m == [val |-> v, born |-> tick] IN
          /\ push(message_queue, m).next_tick_queue = Append(Nxt, m)
          /\ push(message_queue, m).current_tick_queue = Cur
          /\ \A i \in DOMAIN Cur :
                /\ Len(iter_mut(message_queue, i, v).current_tick_queue)
                      = Len(Cur)
                /\ iter_mut(message_queue, i, v).next_tick_queue = Nxt

C23_Witness ==
    /\ tick = MaxTicks
    /\ Len(Cur) = MaxQueue
    /\ Len(Nxt) = MaxQueue
    /\ seenValid

\* C24: once the selection call has returned the empty list, and after run
\* has returned, the messages pushed since the latest next_tick (by the
\* components of the last tick and by that selection call) are all still in
\* the next buffer, none of them is in the current buffer, and no step
\* performs a next_tick or changes the queue any more: they are never
\* delivered.
C24_LastPushesUndelivered ==
    /\ []((pc = "done" \/ (pc = "check" /\ selected = <<>>)) =>
             (/\ Nxt = pushLog
              /\ \A j \in DOMAIN Nxt : Nxt[j].born = tick
              /\ \A i \in DOMAIN Cur : Cur[i].born # tick))
    /\ [][(pc = "done" \/ (pc = "check" /\ selected = <<>>)) =>
             (/\ tick' = tick
              /\ message_queue' = message_queue
              /\ pc' = "done")]_vars

C24_Witness ==
    /\ pc = "done"
    /\ tick = 2
    /\ Len(updated) = 2
    /\ Len(pushLog) = 2
    /\ pushLog[1].val # pushLog[2].val
    /\ Cur # <<>>
    /\ snap.queue.next_tick_queue = pushLog

\* C25: the steps of the run loop itself (the loop test with its next_tick,
\* and the return) leave the program state and the component list as they
\* are and push nothing: they either leave the queue untouched or perform
\* one next_tick.  The program state changes only in a step of a component
\* update or of the selection closure; every message of the next buffer is a
\* push of such a step, and every message of the current buffer is one of
\* the pushes that the latest next_tick delivered.
C25_LoopAddsNothing ==
    /\ [](/\ Nxt = pushLog
          /\ Len(Cur) = Len(prevLog)
          /\ \A i \in DOMAIN Cur : Cur[i].born = prevLog[i].born)
    /\ [][/\ pc = "check" =>
                (/\ program_state' = program_state
                 /\ systems' = systems
                 /\ selCalls' = selCalls
                 /\ updated' = <<>> \/ updated' = updated
                 /\ \/ message_queue' = message_queue /\ tick' = tick
                    \/ /\ tick' = tick + 1
                       /\ Cur' = Nxt
                       /\ Nxt' = <<>>)
          /\ program_state' # program_state =>
                (\/ selCalls' = selCalls + 1
                 \/ Len(updated') = Len(updated) + 1)
          /\ (tick' = tick /\ message_queue' # message_queue) =>
                (\/ selCalls' = selCalls + 1
                 \/ Len(updated') = Len(updated) + 1)]_vars

C25_Witness ==
    /\ pc = "dispatch"
    /\ idx = 1
    /\ tick = 2
    /\ program_state = 1
    /\ Len(Cur) = 2
    /\ Cur = prevLog
    /\ Nxt = <<>>
    /\ Len(prevUpdated) = 2

\* C26: a value written into position i of the current buffer through
\* iter_mut is not in that position before the writing step and is there
\* after it; it stays there, in place of the pushed value, through the
\* updates of the later components of the tick and the selection call that
\* follows, until another write to the same position or the next next_tick;
\* the next buffer holds exactly the pushed messages, and after the next
\* next_tick the current buffer is exactly those pushes, so the written
\* value is gone.
C26_WrittenValueSeen ==
    /\ [](/\ \A i \in DOMAIN writeVal :
                /\ i \in DOMAIN Cur
                /\ Cur[i].val = writeVal[i]
                /\ Cur[i].born = tick - 1
          /\ Nxt = pushLog)
    /\ [][/\ tick' = tick =>
                \A i \in DOMAIN writeVal' :
                    (i \notin DOMAIN writeVal \/ writeVal[i] # writeVal'[i]) =>
                        (/\ Cur[i].val # writeVal'[i]
                         /\ Cur'[i].val = writeVal'[i])
          /\ tick' = tick + 1 =>
                (/\ writeVal' = NoWrites
                 /\ Cur' = pushLog
                 /\ Nxt' = <<>>)]_vars

C26_Witness ==
    /\ pc = "select"
    /\ tick = 2
    /\ Len(updated) = 2
    /\ DOMAIN writeVal = {1, 2}
    /\ Cur[1].val # prevLog[1].val
    /\ Cur[2].val # prevLog[2].val
    /\ pushLog # <<>>

CurVals == [i \in DOMAIN Cur |-> Cur[i].val]

\* C27: in the run of hello.rs the current buffer is [Init] in tick 1,
\* [Log("Hello, World!")] in tick 2, empty in tick 3 and [Shutdown] in tick
\* 4; "Hello, World!" is printed exactly once, during tick 2, and nothing
\* else is printed; done is false until the update of tick 4 sets it; there
\* is no fifth tick, run returns after tick 4, and it does return.
C27_HelloSequence ==
    /\ [](input.program = "hello" =>
             (/\ tick <= 4
              /\ tick = 0 => CurVals = <<>>
              /\ tick = 1 => CurVals = <<Msg("Init")>>
              /\ tick = 2 => CurVals = <<LogMsg(HelloWorld)>>
              /\ tick = 3 => CurVals = <<>>
              /\ tick = 4 => CurVals = <<Msg("Shutdown")>>
              /\ io.out = IF tick < 2 \/ (tick = 2 /\ updated = <<>>)
                          THEN <<>> ELSE <<HelloWorld>>
              /\ program_state.done <=> (tick = 4 /\ updated # <<>>)
              /\ pc = "done" => (tick = 4 /\ selCalls = 5)))
    /\ (input.program = "hello" /\ pc = "start") ~> (pc = "done")

C27_Witness ==
    /\ input.program = "hello"
    /\ pc = "done"
    /\ tick = 4
    /\ program_state.done
    /\ io.out = <<HelloWorld>>
    /\ CurVals = <<Msg("Shutdown")>>

\* C28: once InputSystem has pushed a Shutdown during tick N, the run goes
\* on for exactly two more ticks: tick N+1, in which Shutdown is a current
\* message and after whose dispatch the selection call sets done and still
\* returns the components, and tick N+2, after which the selection call
\* returns the empty list (and clears done again) and run returns; no
\* read_input call is made and no line is consumed after the push; and the
\* run does return.
C28_ShutdownInTwoTicks ==
    /\ [](io.shutdownTick # 0 =>
             (/\ tick \in io.shutdownTick .. io.shutdownTick + 2
              /\ pc = "done" => tick = io.shutdownTick + 2
              /\ (tick = io.shutdownTick + 2 /\ pc = "check") =>
                    selected = <<>>
              /\ (tick < io.shutdownTick + 2 /\ pc = "check") =>
                    selected # <<>>
              /\ tick = io.shutdownTick + 1 => CalcDone(message_queue)
              /\ program_state.done <=>
                    \/ tick = io.shutdownTick + 1 /\ pc = "check"
                    \/ tick = io.shutdownTick + 2
                          /\ pc \in {"dispatch", "select"}))
    /\ [][io.shutdownTick # 0 =>
             (/\ io'.reads = io.reads
              /\ io'.pos = io.pos
              /\ io'.shutdownTick = io.shutdownTick)]_vars
    /\ (io.shutdownTick # 0 /\ io.shutdownTick + 2 <= MaxRunTicks)
          ~> (pc = "done")

C28_Witness ==
    /\ input.program = "calculator"
    /\ input.stdin = <<<<"x", "help">>, <<"exit">>>>
    /\ io.shutdownTick # 0
    /\ io.pos = 2
    /\ pc = "done"
    /\ tick = io.shutdownTick + 2
    /\ io.reads = 2

\* C29 as stated: the calculator never reaches a state from which it keeps
\* ticking without ever polling input again.  Such a state is one in which a
\* line has been read, no Shutdown has been pushed, done is false and both
\* buffers hold nothing but Result, Log and Error messages: from it
\* CalculatorSystem only pushes Result, the closure only pushes Log,
\* OutputSystem sees no FlushOutput and InputSystem no PollInput, in every
\* later tick.
C29_PollFollows ==
    ~(/\ input.program = "calculator"
      /\ io.reads >= 1
      /\ io.shutdownTick = 0
      /\ ~program_state.done
      /\ pc \notin {"start", "done"}
      /\ \A i \in DOMAIN Cur : Cur[i].val.kind \in {"Result", "Log", "Error"}
      /\ \A i \in DOMAIN Nxt : Nxt[i].val.kind \in {"Result", "Log", "Error"})

====
